---- MODULE Spec2Model ----
(***************************************************************************)
(* Model of the documentation tooling of VSCode-Logger:                    *)
(*   docs/scripts/ts_doxygen_filter.py  the TypeScript filter for Doxygen  *)
(*   docs/source/conf.py                the Sphinx configuration           *)
(* Lines of text are TLA+ strings; a character is a string of length one.  *)
(***************************************************************************)
EXTENDS Naturals, Sequences, FiniteSets, TLC

VARIABLES
    stdin,      \* the lines the iterator of main has not yielded yet
    consumed,   \* the lines the iterator has yielded so far (history)
    raw,        \* main's loop variable
    line,       \* _strip_line's local variable
    origin,     \* for each character of line, its index in raw (history)
    stdout,     \* the strings written so far, one per write call
    pc,         \* the statement the filter is at
    env,        \* what docs/source/conf.py finds installed and set
    fs,         \* which of the generated paths exist
    conf,       \* the module-level names of docs/source/conf.py
    trace,      \* what _generate_typedoc did (history)
    cpc         \* the statement conf.py is at

fvars == <<stdin, consumed, raw, line, origin, stdout, pc>>

cvars == <<env, fs, conf, trace, cpc>>

vars == <<stdin, consumed, raw, line, origin, stdout, pc, env, fs, conf, trace, cpc>>

(***************************************************************************)
(* Bounds of the model.                                                    *)
(***************************************************************************)
MaxFrags == 3
MaxLines == 2

(***************************************************************************)
(* Characters and the classes the patterns use.  The lines of the model    *)
(* are ASCII, where \w is [A-Za-z0-9_] and \s is blank, tab, newline,      *)
(* carriage return and form feed (and the vertical tab, which no line of   *)
(* the model holds).                                                       *)
(***************************************************************************)
Char(s, i) == SubSeq(s, i, i)

WordChars ==
    {"a","b","c","d","e","f","g","h","i","j","k","l","m","n","o","p","q","r",
     "s","t","u","v","w","x","y","z",
     "A","B","C","D","E","F","G","H","I","J","K","L","M","N","O","P","Q","R",
     "S","T","U","V","W","X","Y","Z",
     "0","1","2","3","4","5","6","7","8","9","_"}

SpaceChars == {" ", "\t", "\n", "\r", "\f"}

TypeChars == WordChars \cup {"[", "]", "|", "?", "<", ">", "{", "}", "(", ")", "."}

IsWordAt(s, i) == i >= 1 /\ i <= Len(s) /\ Char(s, i) \in WordChars

\* \b before the character at index i
WordBoundary(s, i) == IsWordAt(s, i - 1) # IsWordAt(s, i)

LiteralAt(s, i, k) == i + Len(k) - 1 <= Len(s) /\ SubSeq(s, i, i + Len(k) - 1) = k

\* The index after the longest run of characters of class C that starts at i.
RECURSIVE RunEnd(_, _, _)
RunEnd(s, i, C) ==
    IF i <= Len(s) /\ Char(s, i) \in C THEN RunEnd(s, i + 1, C) ELSE i

\* The index after the longest run of characters other than c that starts at i.
RECURSIVE RunEndNot(_, _, _)
RunEndNot(s, i, c) ==
    IF i <= Len(s) /\ Char(s, i) # c THEN RunEndNot(s, i + 1, c) ELSE i

(***************************************************************************)
(* The four patterns.  Each gives, for a match that starts at index i, the *)
(* index after the match, and 0 when the pattern does not match at i.      *)
(***************************************************************************)
\* \bK\s+
KeywordSpace(s, i, k) ==
    LET e == RunEnd(s, i + Len(k), SpaceChars)
    IN  IF WordBoundary(s, i) /\ LiteralAt(s, i, k) /\ e > i + Len(k) THEN e ELSE 0

\* the pattern with the alternative private left out
ACCESS_MODIFIER_no_private(s, i) ==
    IF KeywordSpace(s, i, "public") > 0 THEN KeywordSpace(s, i, "public")
    ELSE KeywordSpace(s, i, "protected")

ACCESS_MODIFIER(s, i) ==
    IF KeywordSpace(s, i, "public") > 0 THEN KeywordSpace(s, i, "public")
    ELSE IF KeywordSpace(s, i, "private") > 0 THEN KeywordSpace(s, i, "private")
    ELSE KeywordSpace(s, i, "protected")

READONLY(s, i) == KeywordSpace(s, i, "readonly")

\* the pattern without \s*: ":" and the type characters right after it
TYPE_ANNOTATION_no_space(s, i) ==
    IF i <= Len(s) /\ Char(s, i) = ":"
    THEN LET e == RunEnd(s, i + 1, TypeChars) IN IF e > i + 1 THEN e ELSE 0
    ELSE 0

TYPE_ANNOTATION(s, i) ==
    IF i <= Len(s) /\ Char(s, i) = ":"
    THEN LET j == RunEnd(s, i + 1, SpaceChars)
             e == RunEnd(s, j, TypeChars)
         IN  IF e > j THEN e ELSE 0
    ELSE 0

\* the pattern with * for +: "<>" matches too
GENERICS_empty_ok(s, i) ==
    IF i <= Len(s) /\ Char(s, i) = "<"
    THEN LET j == RunEndNot(s, i + 1, ">") IN IF j <= Len(s) THEN j + 1 ELSE 0
    ELSE 0

GENERICS(s, i) ==
    IF i <= Len(s) /\ Char(s, i) = "<"
    THEN LET j == RunEndNot(s, i + 1, ">")
         IN  IF j > i + 1 /\ j <= Len(s) THEN j + 1 ELSE 0
    ELSE 0

MatchEnd(re, s, i) ==
    CASE re = "ACCESS_MODIFIER" -> ACCESS_MODIFIER(s, i)
      [] re = "READONLY"        -> READONLY(s, i)
      [] re = "GENERICS"        -> GENERICS(s, i)
      [] re = "TYPE_ANNOTATION" -> TYPE_ANNOTATION(s, i)

(***************************************************************************)
(* re.sub("", s): scan from the left; at a match drop it and go on after   *)
(* it, otherwise keep the character.  Kept gives the indices that stay.    *)
(***************************************************************************)
RECURSIVE Kept(_, _, _)
Kept(re, s, i) ==
    IF i > Len(s) THEN <<>>
    ELSE LET e == MatchEnd(re, s, i)
         IN  IF e > 0 THEN Kept(re, s, e) ELSE <<i>> \o Kept(re, s, i + 1)

RECURSIVE Pick(_, _, _)
Pick(s, K, n) == IF n > Len(K) THEN "" ELSE Char(s, K[n]) \o Pick(s, K, n + 1)

\* sub(" ", s) for sub("", s): every match becomes a blank
RECURSIVE Blanked(_, _, _)
Blanked(re, s, i) ==
    IF i > Len(s) THEN ""
    ELSE LET e == MatchEnd(re, s, i)
         IN  IF e > 0 THEN " " \o Blanked(re, s, e) ELSE Char(s, i) \o Blanked(re, s, i + 1)

Sub_blank(re, s) == Blanked(re, s, 1)

Sub(re, s) == Pick(s, Kept(re, s, 1), 1)

SubOrigin(re, s, o) == LET K == Kept(re, s, 1) IN [n \in 1..Len(K) |-> o[K[n]]]

(***************************************************************************)
(* The input.  A line is a body with or without its terminator; the bodies *)
(* are the concatenations of at most MaxFrags fragments, and some          *)
(* TypeScript lines.  Every line main reads but the last ends in "\n".     *)
(***************************************************************************)
Fragments == {"private", "readonly", "x", " ", ":", "<", ">", ";", ","}

RECURSIVE Concats(_)
Concats(n) ==
    IF n = 0 THEN {""}
    ELSE LET S == Concats(n - 1) IN S \cup {s \o f : s \in S, f \in Fragments}

Examples ==
    {"private readonly value: Map<string, number>;",
     "  protected handlers: Map<string, Array<number>>;",
     "export class Cache<K, V extends Array<K>> {",
     "public private<T> x",
     "private:T x",
     "  public",
     "  constructor(private readonly x: number) {}",
     "  // nothing to strip here"}

Bodies == Concats(MaxFrags) \cup Examples

Lines == {b \o t : b \in Bodies, t \in {"", "\n"}} \ {""}

MainBodies == {"private x: T;", "a<b>", "readonly", "", "y"}

RECURSIVE Inputs(_)
Inputs(n) ==
    IF n = 0 THEN {<<>>}
    ELSE LET S == Inputs(n - 1)
         IN  S \cup {<<b \o "\n">> \o q : b \in MainBodies, q \in S \ {<<>>}}
               \cup {<<l>> : l \in {b \o t : b \in MainBodies, t \in {"", "\n"}} \ {""}}

Idx(s) == [n \in 1..Len(s) |-> n]

None == "None"

NoConf == [myst_enable_extensions |-> None, warnings |-> 0,
           have_typedoc |-> None, app_have_typedoc |-> None]

NoTrace == [returned |-> FALSE, result |-> FALSE, command |-> None, runs |-> 0,
            mkdir |-> FALSE, outcome |-> None]

InitFilter(in) ==
    /\ env = None
    /\ fs = None
    /\ conf = NoConf
    /\ trace = NoTrace
    /\ cpc = "off"
    /\ stdin = in
    /\ consumed = <<>>
    /\ raw = ""
    /\ line = ""
    /\ origin = <<>>
    /\ stdout = <<>>
    /\ pc = "for"

\* one line through _strip_line
Init == \E l \in Lines : InitFilter(<<l>>)

\* main over a whole input
InitMain == \E in \in Inputs(MaxLines) : InitFilter(in)

(***************************************************************************)
(* main: for raw in stdin: stdout.write(_strip_line(raw))                  *)
(***************************************************************************)
NextLine ==
    /\ pc = "for"
    /\ stdin # <<>>
    /\ raw' = Head(stdin)
    /\ stdin' = Tail(stdin)
    /\ consumed' = Append(consumed, Head(stdin))
    /\ line' = Head(stdin)
    /\ origin' = Idx(Head(stdin))
    /\ pc' = "access"
    /\ UNCHANGED stdout
    /\ UNCHANGED cvars

Exhausted ==
    /\ pc = "for"
    /\ stdin = <<>>
    /\ pc' = "done"
    /\ UNCHANGED <<stdin, consumed, raw, line, origin, stdout>>
    /\ UNCHANGED cvars

\* line 23: line = ACCESS_MODIFIER.sub("", line)
StripAccess ==
    /\ pc = "access"
    /\ line' = Sub("ACCESS_MODIFIER", line)
    /\ origin' = SubOrigin("ACCESS_MODIFIER", line, origin)
    /\ pc' = "readonly"
    /\ UNCHANGED <<stdin, consumed, raw, stdout>>
    /\ UNCHANGED cvars

\* line 24: line = READONLY.sub("", line)
StripReadonly ==
    /\ pc = "readonly"
    /\ line' = Sub("READONLY", line)
    /\ origin' = SubOrigin("READONLY", line, origin)
    /\ pc' = "generics"
    /\ UNCHANGED <<stdin, consumed, raw, stdout>>
    /\ UNCHANGED cvars

\* line 25 with the pattern of line 27
StripGenerics_type_pattern ==
    /\ pc = "generics"
    /\ line' = Sub("TYPE_ANNOTATION", line)
    /\ origin' = SubOrigin("TYPE_ANNOTATION", line, origin)
    /\ pc' = "type"
    /\ UNCHANGED <<stdin, consumed, raw, stdout>>
    /\ UNCHANGED cvars

\* line 25: line = GENERICS.sub("", line)
StripGenerics ==
    /\ pc = "generics"
    /\ line' = Sub("GENERICS", line)
    /\ origin' = SubOrigin("GENERICS", line, origin)
    /\ pc' = "type"
    /\ UNCHANGED <<stdin, consumed, raw, stdout>>
    /\ UNCHANGED cvars

\* line 27: line = TYPE_ANNOTATION.sub("", line)
StripType ==
    /\ pc = "type"
    /\ line' = Sub("TYPE_ANNOTATION", line)
    /\ origin' = SubOrigin("TYPE_ANNOTATION", line, origin)
    /\ pc' = "write"
    /\ UNCHANGED <<stdin, consumed, raw, stdout>>
    /\ UNCHANGED cvars

\* stdout.write(raw)
Write_raw ==
    /\ pc = "write"
    /\ stdout' = Append(stdout, raw)
    /\ pc' = "for"
    /\ UNCHANGED <<stdin, consumed, raw, line, origin>>
    /\ UNCHANGED cvars

\* line 28 and line 33: return line; stdout.write(...)
Write ==
    /\ pc = "write"
    /\ stdout' = Append(stdout, line)
    /\ pc' = "for"
    /\ UNCHANGED <<stdin, consumed, raw, line, origin>>
    /\ UNCHANGED cvars

Next ==
    \/ NextLine
    \/ StripAccess
    \/ StripReadonly
    \/ StripGenerics
    \/ StripType
    \/ Write
    \/ Exhausted

Spec == Init /\ [][Next]_vars

SpecMain == InitMain /\ [][Next]_vars

(***************************************************************************)
(* docs/source/conf.py.  env is what the build machine offers: whether     *)
(* importlib finds linkify_it, the value of TYPEDOC_SKIP, whether          *)
(* typedoc.json, node_modules/.bin/typedoc, typedoc on PATH and npx on     *)
(* PATH exist, and whether docs/typedoc can be created.  fs is whether     *)
(* docs/typedoc and docs/typedoc/index.html exist (index.html may be left  *)
(* from an earlier build).  warnings.warn is modelled under Python's       *)
(* default filter, where it reports and returns.                           *)
(***************************************************************************)
SkipValues == {None, "", "1"}

InitConf ==
    /\ env \in [linkify_it : BOOLEAN, TYPEDOC_SKIP : SkipValues,
                typedoc_config : BOOLEAN, local_typedoc : BOOLEAN,
                which_typedoc : BOOLEAN, which_npx : BOOLEAN,
                mkdir_ok : BOOLEAN]
    /\ fs \in {f \in [output : BOOLEAN, index : BOOLEAN] : f.index => f.output}
    /\ conf = NoConf
    /\ trace = NoTrace
    /\ cpc = "myst"
    /\ stdin = <<>>
    /\ consumed = <<>>
    /\ raw = ""
    /\ line = ""
    /\ origin = <<>>
    /\ stdout = <<>>
    /\ pc = "off"

\* linkify enabled whether or not linkify_it is found
MystExtensions_always_linkify ==
    /\ cpc = "myst"
    /\ conf' = [conf EXCEPT !.myst_enable_extensions =
                                <<"colon_fence", "substitution", "linkify">>]
    /\ cpc' = "generate"
    /\ UNCHANGED <<env, fs, trace>>
    /\ UNCHANGED fvars

\* lines 42-58
MystExtensions ==
    /\ cpc = "myst"
    /\ IF env.linkify_it
       THEN conf' = [conf EXCEPT !.myst_enable_extensions =
                                     <<"colon_fence", "substitution", "linkify">>]
       ELSE conf' = [conf EXCEPT !.myst_enable_extensions =
                                     <<"colon_fence", "substitution">>,
                                 !.warnings = @ + 1]
    /\ cpc' = "generate"
    /\ UNCHANGED <<env, fs, trace>>
    /\ UNCHANGED fvars

\* typedoc on PATH tried before the local one
_typedoc_command_path_first ==
    IF env.which_typedoc THEN <<"typedoc">>
    ELSE IF env.local_typedoc THEN <<"node_modules/.bin/typedoc">>
    ELSE IF env.which_npx THEN <<"npx", "typedoc">>
    ELSE None

\* lines 71-81
_typedoc_command ==
    IF env.local_typedoc THEN <<"node_modules/.bin/typedoc">>
    ELSE IF env.which_typedoc THEN <<"typedoc">>
    ELSE IF env.which_npx THEN <<"npx", "typedoc">>
    ELSE None

\* os.environ.get("TYPEDOC_SKIP") is truthy
SkipSet == env.TYPEDOC_SKIP # None /\ env.TYPEDOC_SKIP # ""

Returns(v) ==
    /\ trace' = [trace EXCEPT !.returned = TRUE, !.result = v]
    /\ cpc' = "have"
    /\ UNCHANGED <<env, fs, conf>>
    /\ UNCHANGED fvars

\* line 108 calling lines 87-88
GenerateSkipped ==
    /\ cpc = "generate"
    /\ SkipSet
    /\ Returns(FALSE)

\* lines 89-90
GenerateNoConfig ==
    /\ cpc = "generate"
    /\ ~SkipSet
    /\ ~env.typedoc_config
    /\ Returns(FALSE)

\* lines 92-94
GenerateNoCommand ==
    /\ cpc = "generate"
    /\ ~SkipSet
    /\ env.typedoc_config
    /\ _typedoc_command = None
    /\ trace' = [trace EXCEPT !.returned = TRUE, !.result = FALSE, !.command = None]
    /\ cpc' = "have"
    /\ UNCHANGED <<env, fs, conf>>
    /\ UNCHANGED fvars

\* line 96 raising: docs/typedoc is absent and cannot be created
GenerateMkdirRaises ==
    /\ cpc = "generate"
    /\ ~SkipSet
    /\ env.typedoc_config
    /\ _typedoc_command # None
    /\ ~fs.output
    /\ ~env.mkdir_ok
    /\ trace' = [trace EXCEPT !.command = _typedoc_command, !.outcome = "mkdir raised"]
    /\ cpc' = "raised"
    /\ UNCHANGED <<env, fs, conf>>
    /\ UNCHANGED fvars

\* lines 96-104: subprocess.run raises OSError
GenerateOSError ==
    /\ cpc = "generate"
    /\ ~SkipSet
    /\ env.typedoc_config
    /\ _typedoc_command # None
    /\ fs.output \/ env.mkdir_ok
    /\ fs' = [fs EXCEPT !.output = TRUE]
    /\ trace' = [returned |-> TRUE, result |-> FALSE, command |-> _typedoc_command,
                 runs |-> trace.runs + 1, mkdir |-> TRUE, outcome |-> "OSError"]
    /\ cpc' = "have"
    /\ UNCHANGED <<env, conf>>
    /\ UNCHANGED fvars

\* lines 96-105: the subprocess ran; whatever its exit status (check=False)
\* it may have written index.html, left it as it was, or removed it
GenerateRan ==
    /\ cpc = "generate"
    /\ ~SkipSet
    /\ env.typedoc_config
    /\ _typedoc_command # None
    /\ fs.output \/ env.mkdir_ok
    /\ \E index \in BOOLEAN :
          /\ fs' = [output |-> TRUE, index |-> index]
          /\ trace' = [returned |-> TRUE, result |-> index, command |-> _typedoc_command,
                       runs |-> trace.runs + 1, mkdir |-> TRUE, outcome |-> "ran"]
    /\ cpc' = "have"
    /\ UNCHANGED <<env, conf>>
    /\ UNCHANGED fvars

\* have_typedoc = _generate_typedoc()
HaveTypedoc_from_result ==
    /\ cpc = "have"
    /\ conf' = [conf EXCEPT !.have_typedoc = trace.result]
    /\ cpc' = "mkdir"
    /\ UNCHANGED <<env, fs, trace>>
    /\ UNCHANGED fvars

\* line 109
HaveTypedoc ==
    /\ cpc = "have"
    /\ conf' = [conf EXCEPT !.have_typedoc = fs.index]
    /\ cpc' = "mkdir"
    /\ UNCHANGED <<env, fs, trace>>
    /\ UNCHANGED fvars

\* line 110
MkdirOutput ==
    /\ cpc = "mkdir"
    /\ IF fs.output \/ env.mkdir_ok
       THEN fs' = [fs EXCEPT !.output = TRUE] /\ cpc' = "loaded"
       ELSE fs' = fs /\ cpc' = "raised"
    /\ UNCHANGED <<env, conf, trace>>
    /\ UNCHANGED fvars

\* lines 117-124
setup ==
    /\ cpc = "loaded"
    /\ conf' = [conf EXCEPT !.app_have_typedoc = conf.have_typedoc]
    /\ cpc' = "ready"
    /\ UNCHANGED <<env, fs, trace>>
    /\ UNCHANGED fvars

NextConf ==
    \/ MystExtensions
    \/ GenerateSkipped
    \/ GenerateNoConfig
    \/ GenerateNoCommand
    \/ GenerateMkdirRaises
    \/ GenerateOSError
    \/ GenerateRan
    \/ HaveTypedoc
    \/ MkdirOutput
    \/ setup

SpecConf == InitConf /\ [][NextConf]_vars

(***************************************************************************)
(* Properties of the filter.  They read the patterns off the regular       *)
(* expressions themselves, not off the operators the actions use.          *)
(***************************************************************************)
Stripped == {"readonly", "generics", "type", "write"}

Range(f) == {f[n] : n \in 1..Len(f)}

Has(s, c) == \E i \in 1..Len(s) : Char(s, i) = c

EndsInNewline(s) == Len(s) > 0 /\ Char(s, Len(s)) = "\n"

AccessKeywords == {"public", "private", "protected"}

\* keyword k, then a whitespace character, from index i on
KeywordAt(s, i, k) ==
    /\ LiteralAt(s, i, k)
    /\ i + Len(k) <= Len(s)
    /\ Char(s, i + Len(k)) \in SpaceChars

\* an access modifier followed by whitespace, anywhere
HasModifier(s) == \E i \in 1..Len(s) : \E k \in AccessKeywords : KeywordAt(s, i, k)

\* an access modifier followed by whitespace that starts at a word boundary
HasModifierWord(s) ==
    \E i \in 1..Len(s) : \E k \in AccessKeywords :
        WordBoundary(s, i) /\ KeywordAt(s, i, k)

\* C1 as stated: a line that contains an access modifier followed by
\* whitespace comes out of _strip_line with no access modifier followed by
\* whitespace in it.
C1_NoModifierLeft ==
    (pc = "write" /\ HasModifier(raw)) => ~HasModifier(line)

\* C1, amended: every access modifier of the input line that starts at a
\* word boundary and is followed by whitespace is deleted together with the
\* whitespace run after it; the line after the ACCESS_MODIFIER substitution
\* has no such occurrence, and neither has the returned line when the input
\* has no "<" and no ":".
C1_WordModifierOmitted ==
    /\ pc \in Stripped =>
          \A i \in 1..Len(raw) : \A k \in AccessKeywords :
              (WordBoundary(raw, i) /\ KeywordAt(raw, i, k)) =>
                  \A q \in i..(RunEnd(raw, i + Len(k), SpaceChars) - 1) :
                      q \notin Range(origin)
    /\ pc = "readonly" => ~HasModifierWord(line)
    /\ (pc = "write" /\ ~Has(raw, "<") /\ ~Has(raw, ":")) => ~HasModifierWord(line)

C1_Witness ==
    /\ pc = "write"
    /\ HasModifierWord(raw)
    /\ ~Has(raw, "<")
    /\ ~Has(raw, ":")
    /\ Len(line) > 0
    /\ line # raw

Count(s, i, q, c) == Cardinality({n \in i..q : Char(s, n) = c})

\* s[i..j] is a generic-parameter suffix: a bracketed, balanced, non-empty
\* segment right after a name
GenericSuffix(s, i, j) ==
    /\ IsWordAt(s, i - 1)
    /\ Char(s, i) = "<"
    /\ Char(s, j) = ">"
    /\ j > i + 1
    /\ \A q \in i..(j - 1) : Count(s, i, q, "<") > Count(s, i, q, ">")
    /\ Count(s, i, j, "<") = Count(s, i, j, ">")

\* C2: a generic-parameter suffix of the input line, nested ones included,
\* is omitted whole: none of its characters is left in the returned line.
C2_GenericsOmitted ==
    pc = "write" =>
        \A i \in 1..Len(raw) : \A j \in i..Len(raw) :
            GenericSuffix(raw, i, j) => \A q \in i..j : q \notin Range(origin)

\* the removal of the matches of re from s, taken from left to right
RECURSIVE Removal(_, _, _, _)
Removal(re, s, i, acc) ==
    IF i > Len(s) THEN acc
    ELSE IF MatchEnd(re, s, i) > 0 THEN Removal(re, s, MatchEnd(re, s, i), acc)
    ELSE Removal(re, s, i + 1, acc \o Char(s, i))

Removed(re, s) == Removal(re, s, 1, "")

AfterAccess(s) == Removed("ACCESS_MODIFIER", s)

AfterReadonly(s) == Removed("READONLY", AfterAccess(s))

AfterGenerics(s) == Removed("GENERICS", AfterReadonly(s))

AfterType(s) == Removed("TYPE_ANNOTATION", AfterGenerics(s))

\* C3: _strip_line applies the removals in the order access modifier,
\* readonly, generics, type annotation: after each statement the line is the
\* removal of that pattern from the result of the statements before it.
C3_FixedOrder ==
    /\ pc = "access" => line = raw
    /\ pc = "readonly" => line = AfterAccess(raw)
    /\ pc = "generics" => line = AfterReadonly(raw)
    /\ pc = "type" => line = AfterGenerics(raw)
    /\ pc = "write" => line = AfterType(raw)

\* every statement removes something, and the other order of the last two
\* gives another line
C3_Witness ==
    /\ pc = "write"
    /\ AfterAccess(raw) # raw
    /\ AfterReadonly(raw) # AfterAccess(raw)
    /\ AfterGenerics(raw) # AfterReadonly(raw)
    /\ line # AfterGenerics(raw)
    /\ line # Removed("GENERICS", Removed("TYPE_ANNOTATION", AfterReadonly(raw)))

ExampleLine == "private readonly value: Map<string, number>;"

\* C4: the line "private readonly value: Map<string, number>;" comes out as
\* "value;".
C4_Example ==
    (pc = "write" /\ raw = ExampleLine) => line = "value;"

C4_Witness == pc = "write" /\ raw = ExampleLine /\ Len(line) = 6

\* \b(public|private|protected)\s+ or \breadonly\s+ matches somewhere
KeywordPattern(s) ==
    \E i \in 1..Len(s) : \E k \in AccessKeywords \cup {"readonly"} :
        WordBoundary(s, i) /\ KeywordAt(s, i, k)

\* <[^>]+> matches somewhere: a "<", one character or more that are not ">",
\* and a ">"
GenericsPattern(s) ==
    \E i \in 1..Len(s) : \E j \in (i + 2)..Len(s) :
        /\ Char(s, i) = "<"
        /\ Char(s, j) = ">"
        /\ \A q \in (i + 1)..(j - 1) : Char(s, q) # ">"

\* :\s*[A-Za-z0-9_\[\]\|?<>{}()\.]+ matches somewhere: a ":", whitespace or
\* none, and a type character
TypePattern(s) ==
    \E i \in 1..Len(s) : \E j \in (i + 1)..Len(s) :
        /\ Char(s, i) = ":"
        /\ Char(s, j) \in TypeChars
        /\ \A q \in (i + 1)..(j - 1) : Char(s, q) \in SpaceChars

NoPattern(s) == ~KeywordPattern(s) /\ ~GenericsPattern(s) /\ ~TypePattern(s)

\* C5: a line none of the four patterns matches is returned unchanged, its
\* terminator included.
C5_Unchanged ==
    (pc = "write" /\ NoPattern(raw)) => line = raw

\* a line with a keyword, a bracket pair and a colon that match nothing
C5_Witness ==
    /\ pc = "write"
    /\ NoPattern(raw)
    /\ EndsInNewline(raw)
    /\ \/ \E i \in 1..Len(raw) : LiteralAt(raw, i, "private")
       \/ \E i \in 1..Len(raw) : LiteralAt(raw, i, "<>")
    /\ Has(raw, ":")

Working == {"access", "readonly", "generics", "type", "write"}

\* C6: main writes, once per line and before it reads the next line, the
\* line _strip_line makes of the line read: the writes so far are the
\* stripped lines read so far, in order, and the lines read and those to
\* come are the input.
C6_LineByLine ==
    /\ Len(stdout) = Len(consumed) - (IF pc \in Working THEN 1 ELSE 0)
    /\ \A n \in 1..Len(stdout) : stdout[n] = AfterType(consumed[n])
    /\ pc \in Working => raw = consumed[Len(consumed)]
    /\ pc = "done" => stdin = <<>>
    /\ consumed \o stdin \in Inputs(MaxLines)

C6_Witness ==
    /\ pc = "done"
    /\ Len(stdout) >= 2
    /\ stdout[1] # consumed[1]
    /\ stdout[2] # consumed[2]
    /\ stdout[1] # stdout[2]

\* a is b with characters left out
RECURSIVE Embeds(_, _, _, _)
Embeds(a, i, b, j) ==
    IF i > Len(a) THEN TRUE
    ELSE IF j > Len(b) THEN FALSE
    ELSE IF Char(a, i) = Char(b, j) THEN Embeds(a, i + 1, b, j + 1)
    ELSE Embeds(a, i, b, j + 1)

\* the line ends in a keyword at a word boundary and whitespace: the
\* terminator is in the whitespace run a keyword pattern matches
TerminatorInRun(s) ==
    \E i \in 1..Len(s) : \E k \in AccessKeywords \cup {"readonly"} :
        /\ WordBoundary(s, i)
        /\ KeywordAt(s, i, k)
        /\ \A q \in (i + Len(k))..Len(s) : Char(s, q) \in SpaceChars

\* C10: _strip_line only deletes: the returned line is the input line with
\* characters left out, so it is no longer than the input, and the
\* terminator stays unless it is in the whitespace run of a matched keyword.
C10_OnlyDeletes ==
    pc \in Stripped =>
        /\ Embeds(line, 1, raw, 1)
        /\ Len(line) <= Len(raw)
        /\ (EndsInNewline(raw) /\ ~TerminatorInRun(raw)) => EndsInNewline(line)

C10_Witness ==
    /\ pc = "write"
    /\ Len(line) + 2 <= Len(raw)
    /\ Has(raw, ":")
    /\ EndsInNewline(line)
    /\ Len(line) > 1

(***************************************************************************)
(* Properties of docs/source/conf.py.                                      *)
(***************************************************************************)
PastMyst == {"generate", "have", "mkdir", "loaded", "ready"}

PastGenerate == {"have", "mkdir", "loaded", "ready"}

\* C7: myst_enable_extensions always has colon_fence and substitution, and
\* has linkify exactly when linkify_it is found; when it is not found one
\* warning is issued and the configuration goes on to the next statement.
C7_LinkifyOptional ==
    /\ cpc = "myst" => conf.myst_enable_extensions = None
    /\ cpc # "myst" =>
          /\ "colon_fence" \in Range(conf.myst_enable_extensions)
          /\ "substitution" \in Range(conf.myst_enable_extensions)
          /\ "linkify" \in Range(conf.myst_enable_extensions) <=> env.linkify_it
          /\ conf.warnings = (IF env.linkify_it THEN 0 ELSE 1)
    /\ cpc = "raised" => ~env.mkdir_ok

C7_Witness ==
    /\ cpc = "ready"
    /\ ~env.linkify_it
    /\ conf.warnings = 1
    /\ Len(conf.myst_enable_extensions) = 2

\* C8: once conf.py is loaded and setup(app) has run, app.config.have_typedoc
\* is True exactly when docs/typedoc/index.html is there after the
\* generation attempt, whichever way _generate_typedoc went and whatever it
\* returned.
C8_FlagIsIndex ==
    /\ cpc \in {"mkdir", "loaded", "ready"} => conf.have_typedoc = fs.index
    /\ cpc = "ready" =>
          /\ trace.returned
          /\ conf.app_have_typedoc = fs.index

\* _generate_typedoc returned False and the flag is True
C8_Witness ==
    /\ cpc = "ready"
    /\ trace.returned
    /\ ~trace.result
    /\ trace.runs = 0
    /\ conf.app_have_typedoc = TRUE

SkipUnset == env.TYPEDOC_SKIP = None \/ env.TYPEDOC_SKIP = ""

SomeCommand == env.local_typedoc \/ env.which_typedoc \/ env.which_npx

\* C9: _generate_typedoc creates docs/typedoc and runs TypeDoc, once, only
\* when TYPEDOC_SKIP is unset or empty, typedoc.json exists and a command is
\* found, the local one before the one on PATH before npx; otherwise, and
\* when the subprocess raises OSError, it returns False and raises nothing;
\* it returns True only if index.html exists afterwards.
C9_GenerateTypedoc ==
    /\ trace.runs <= 1
    /\ (trace.runs = 1 \/ trace.mkdir) =>
          /\ SkipUnset /\ env.typedoc_config /\ SomeCommand
          /\ env.local_typedoc => trace.command = <<"node_modules/.bin/typedoc">>
          /\ (~env.local_typedoc /\ env.which_typedoc) => trace.command = <<"typedoc">>
          /\ (~env.local_typedoc /\ ~env.which_typedoc) => trace.command = <<"npx", "typedoc">>
    /\ (cpc \notin {"myst", "generate"} /\ ~(SkipUnset /\ env.typedoc_config /\ SomeCommand)) =>
          /\ trace.returned /\ ~trace.result
          /\ trace.runs = 0
          /\ ~trace.mkdir
          /\ trace.outcome = None
    /\ trace.outcome = "OSError" => (trace.returned /\ ~trace.result /\ cpc \in PastGenerate)
    /\ cpc \in PastGenerate => trace.returned
    /\ trace.result => (trace.returned /\ fs.index /\ trace.outcome = "ran")

\* the subprocess raised OSError with npx as the command
C9_Witness ==
    /\ cpc = "have"
    /\ trace.outcome = "OSError"
    /\ trace.command = <<"npx", "typedoc">>
    /\ trace.returned
    /\ ~trace.result
    /\ fs.index

====
